---------------------------- MODULE Spec2Model ----------------------------
(***************************************************************************)
(* Model of the SMTP verification router `check_smtp`                      *)
(* (core/src/smtp/mod.rs).  One check is a task that walks the function    *)
(* top to bottom; every `.await` on a collaborator (Yahoo API, Gmail API,  *)
(* Microsoft365 API, headless password-recovery probe, retried SMTP probe) *)
(* is split into the call and the return, the returned value being chosen  *)
(* by the environment.  Host names are strings, and lower-casing,          *)
(* `contains` and `ends_with` are computed character by character.         *)
(* The retried SMTP probe `check_smtp_with_retry` (connect.rs) follows the *)
(* design document: up to retries + 1 sessions, each raced against         *)
(* smtp_timeout, a new one only after a transient transport failure.       *)
(***************************************************************************)
EXTENDS Integers, Sequences, FiniteSets, TLC

VARIABLES
    input,             \* the shared &CheckEmailInput
    feature_headless,  \* is the crate built with feature "headless"?
    host,              \* host[c]   : the &Name argument of check c
    domain,            \* domain[c] : the &str argument of check c
    host_lowercase,    \* host_lowercase[c] : the local of line 59
    pc,                \* pc[c] : position of check c inside check_smtp
    calls,             \* calls[c]   : collaborator calls made so far, in order
    replies,           \* replies[c] : what each of those calls returned
    count,             \* count[c]   : the `count` of check_smtp_with_retry
    attempts,          \* attempts[c] : the SMTP sessions run so far, in order
    result             \* result[c]  : the value returned by check_smtp

vars == <<input, feature_headless, host, domain, host_lowercase, pc, calls,
          replies, count, attempts, result>>

---------------------------------------------------------------------------
(* Bounds of the model.                                                    *)

\* retries ranges over 0..MaxRetries
MaxRetries == 1

\* skipped_domains holds at most MaxSkipped entries
MaxSkipped == 1

\* an SMTP session lasts 1..MaxDuration ticks; smtp_timeout, when set, is
\* below MaxDuration, so that a session can exceed it
MaxDuration == 2

---------------------------------------------------------------------------
(* Strings: to_lowercase, contains, ends_with.                             *)

UpperToLower ==
    [c \in {"A","B","C","D","E","F","G","H","I","J","K","L","M",
            "N","O","P","Q","R","S","T","U","V","W","X","Y","Z"} |->
       CASE c = "A" -> "a" [] c = "B" -> "b" [] c = "C" -> "c" [] c = "D" -> "d"
         [] c = "E" -> "e" [] c = "F" -> "f" [] c = "G" -> "g" [] c = "H" -> "h"
         [] c = "I" -> "i" [] c = "J" -> "j" [] c = "K" -> "k" [] c = "L" -> "l"
         [] c = "M" -> "m" [] c = "N" -> "n" [] c = "O" -> "o" [] c = "P" -> "p"
         [] c = "Q" -> "q" [] c = "R" -> "r" [] c = "S" -> "s" [] c = "T" -> "t"
         [] c = "U" -> "u" [] c = "V" -> "v" [] c = "W" -> "w" [] c = "X" -> "x"
         [] c = "Y" -> "y" [] c = "Z" -> "z"]

to_lowercase_char(c) == IF c \in DOMAIN UpperToLower THEN UpperToLower[c] ELSE c

\* the characters of s from position i on, lower-cased
RECURSIVE to_lowercase_from(_, _)
to_lowercase_from(s, i) ==
    IF i > Len(s) THEN ""
    ELSE to_lowercase_char(SubSeq(s, i, i)) \o to_lowercase_from(s, i + 1)

to_lowercase(s) == to_lowercase_from(s, 1)

\* str::contains: some window of s equals the pattern d
contains(s, d) ==
    \E i \in 1..(Len(s) - Len(d) + 1) : SubSeq(s, i, i + Len(d) - 1) = d

\* str::ends_with: the last Len(suffix) characters of s are the suffix
ends_with(s, suffix) ==
    /\ Len(suffix) <= Len(s)
    /\ SubSeq(s, Len(s) - Len(suffix) + 1, Len(s)) = suffix

---------------------------------------------------------------------------
(* Values: SmtpDetails, SmtpError, Result.                                 *)

SmtpDetails ==
    [can_connect_smtp : BOOLEAN, has_full_inbox : BOOLEAN,
     is_catch_all : BOOLEAN, is_deliverable : BOOLEAN, is_disabled : BOOLEAN]

Ok(v)  == [tag |-> "Ok",  v |-> v]
Err(e) == [tag |-> "Err", v |-> e]

\* Ok(Some(details)) and Ok(None) of check_microsoft365_api
OkSome(v) == [tag |-> "OkSome", v |-> v]
OkNone    == [tag |-> "OkNone", v |-> [kind |-> "None", detail |-> ""]]

\* no value yet: check_smtp has not returned
NoResult == [tag |-> "Pending", v |-> [kind |-> "None", detail |-> ""]]

\* SmtpError::SkippedDomain(format!(...)) of lines 66-68
SkippedDomain(d) ==
    [kind |-> "SkippedDomain",
     detail |-> "Reacher currently cannot verify emails from @" \o d]

\* the errors of the collaborators, before conversion
YahooErrors     == {[kind |-> "YahooError",     detail |-> "reqwest"],
                    [kind |-> "YahooError",     detail |-> "no cookie"]}
GmailErrors     == {[kind |-> "GmailError",     detail |-> "reqwest"]}
MicrosoftErrors == {[kind |-> "Microsoft365Error", detail |-> "reqwest"]}
HotmailErrors   == {[kind |-> "HotmailError",   detail |-> "webdriver"]}

\* the SmtpError values check_smtp_with_retry can end with
SmtpErrors == {[kind |-> "TimeoutError", detail |-> "smtp_timeout"],
               [kind |-> "SmtpError",    detail |-> "connection refused"],
               [kind |-> "SmtpError",    detail |-> "550 mailbox unavailable"]}

\* `err.into()`: the collaborator's error wrapped in its SmtpError variant
into(err) == [kind |-> "SmtpError::" \o err.kind, detail |-> err.detail]

\* `.map_err(|err| err.into())`
map_err_into(r) == IF r.tag = "Err" THEN Err(into(r.v)) ELSE r

YahooOutcomes  == {Ok(d) : d \in SmtpDetails} \cup {Err(e) : e \in YahooErrors}
GmailOutcomes  == {Ok(d) : d \in SmtpDetails} \cup {Err(e) : e \in GmailErrors}
Microsoft365Outcomes ==
    {OkSome(d) : d \in SmtpDetails} \cup {OkNone}
        \cup {Err(e) : e \in MicrosoftErrors}
HotmailOutcomes == {Ok(d) : d \in SmtpDetails} \cup {Err(e) : e \in HotmailErrors}
SmtpOutcomes   == {Ok(d) : d \in SmtpDetails} \cup {Err(e) : e \in SmtpErrors}

---------------------------------------------------------------------------
(* Inputs.                                                                 *)

\* mail-exchanger host names, as Name::to_string prints them
Hosts ==
    { "mx01.mail.icloud.com.",
      "MX01.Mail.ICloud.COM.",
      "mta5.am0.yahoodns.net.",
      "MTA5.AM0.YahooDNS.net.",
      "yahoo.aspmx.l.google.com.",
      "ASPMX.L.Google.com.",
      "contoso-com.mail.protection.outlook.com.",
      "yahoo-inc.Mail.Protection.Outlook.com.",
      "hotmail-com.olc.protection.outlook.com.",
      "EUR.OLC.protection.outlook.com.",
      "gmail.com" }

Domains == { "icloud.com" }

\* entries a skipped_domains list is built from
SkipSubstrings == { "icloud.com", "ICloud", "yahoo", "outlook.com." }

SkippedDomainsLists ==
    { l \in SUBSET SkipSubstrings : Cardinality(l) <= MaxSkipped }

\* Option<Duration>
NoTimeout      == [some |-> FALSE, ticks |-> 0]
SomeTimeout(t) == [some |-> TRUE,  ticks |-> t]

SmtpTimeouts == {NoTimeout} \cup {SomeTimeout(t) : t \in 1..(MaxDuration - 1)}

\* Option<WebDriver>
NoWebDriver   == [some |-> FALSE, webdriver |-> ""]
SomeWebDriver == [some |-> TRUE,  webdriver |-> "http://localhost:9515"]

CheckEmailInput ==
    [skipped_domains      : SkippedDomainsLists,
     yahoo_use_api        : BOOLEAN,
     gmail_use_api        : BOOLEAN,
     microsoft365_use_api : BOOLEAN,
     hotmail_use_headless : {NoWebDriver, SomeWebDriver},
     retries              : 0..MaxRetries,
     smtp_timeout         : SmtpTimeouts]

\* the checks in progress
Tasks == DOMAIN pc

InitFor(T) ==
    /\ input \in CheckEmailInput
    /\ feature_headless \in BOOLEAN
    /\ host \in [T -> Hosts]
    /\ domain \in [T -> Domains]
    /\ host_lowercase = [c \in T |-> ""]
    /\ pc = [c \in T |-> "start"]
    /\ calls = [c \in T |-> <<>>]
    /\ replies = [c \in T |-> <<>>]
    /\ count = [c \in T |-> 0]
    /\ attempts = [c \in T |-> <<>>]
    /\ result = [c \in T |-> NoResult]

Init == InitFor({1})

---------------------------------------------------------------------------
(* check_smtp, one action per step.                                        *)

\* return `r` from check_smtp
Return(c, r) ==
    /\ result' = [result EXCEPT ![c] = r]
    /\ pc' = [pc EXCEPT ![c] = "done"]

Goto(c, l) ==
    /\ pc' = [pc EXCEPT ![c] = l]
    /\ UNCHANGED result

\* call a collaborator: one more entry in the call log
Call(c, what) == calls' = [calls EXCEPT ![c] = Append(@, what)]

\* a collaborator returned `r`
Reply(c, r) == replies' = [replies EXCEPT ![c] = Append(@, r)]

\* the denylist compared by suffix instead of by substring
CheckSkippedDomains_EndsWith(c) ==
    /\ pc[c] = "start"
    /\ LET hl == to_lowercase(host[c]) IN
         /\ host_lowercase' = [host_lowercase EXCEPT ![c] = hl]
         /\ IF \E d \in input.skipped_domains : ends_with(hl, d)
              THEN Return(c, Err(SkippedDomain(domain[c])))
              ELSE Goto(c, "yahoo")
    /\ UNCHANGED <<input, feature_headless, host, domain, calls, replies,
                 count, attempts>>

\* host_lowercase kept in one buffer shared by all checks
CheckSkippedDomains_SharedBuffer(c) ==
    /\ pc[c] = "start"
    /\ LET hl == to_lowercase(host[c]) IN
         /\ host_lowercase' = [x \in Tasks |-> hl]
         /\ IF \E d \in input.skipped_domains : contains(hl, d)
              THEN Return(c, Err(SkippedDomain(domain[c])))
              ELSE Goto(c, "yahoo")
    /\ UNCHANGED <<input, feature_headless, host, domain, calls, replies,
                   count, attempts>>

\* the host matched as given, without to_lowercase
CheckSkippedDomains_NoLowercase(c) ==
    /\ pc[c] = "start"
    /\ LET hl == host[c] IN
         /\ host_lowercase' = [host_lowercase EXCEPT ![c] = hl]
         /\ IF \E d \in input.skipped_domains : contains(hl, d)
              THEN Return(c, Err(SkippedDomain(domain[c])))
              ELSE Goto(c, "yahoo")
    /\ UNCHANGED <<input, feature_headless, host, domain, calls, replies,
                   count, attempts>>

\* lines 59-69: lower-case the host, then the denylist
CheckSkippedDomains(c) ==
    /\ pc[c] = "start"
    /\ LET hl == to_lowercase(host[c]) IN
         /\ host_lowercase' = [host_lowercase EXCEPT ![c] = hl]
         /\ IF \E d \in input.skipped_domains : contains(hl, d)
              THEN Return(c, Err(SkippedDomain(domain[c])))
              ELSE Goto(c, "yahoo")
    /\ UNCHANGED <<input, feature_headless, host, domain, calls, replies,
                 count, attempts>>

\* the Gmail condition tested before the Yahoo condition
CheckYahoo_GmailFirst(c) ==
    /\ pc[c] = "yahoo"
    /\ IF input.gmail_use_api /\ ends_with(host_lowercase[c], ".google.com.")
         THEN /\ Call(c, [strategy |-> "gmail", retries |-> 0])
              /\ Goto(c, "await_gmail")
         ELSE IF input.yahoo_use_api /\ contains(host_lowercase[c], "yahoo")
                THEN /\ Call(c, [strategy |-> "yahoo", retries |-> 0])
                     /\ Goto(c, "await_yahoo")
                ELSE /\ UNCHANGED calls
                     /\ Goto(c, "microsoft365")
    /\ UNCHANGED <<input, feature_headless, host, domain, host_lowercase, replies,
                 count, attempts>>

\* lines 72-73: the Yahoo condition and the call of check_yahoo
CheckYahoo(c) ==
    /\ pc[c] = "yahoo"
    /\ IF input.yahoo_use_api /\ contains(host_lowercase[c], "yahoo")
         THEN /\ Call(c, [strategy |-> "yahoo", retries |-> 0])
              /\ Goto(c, "await_yahoo")
         ELSE /\ UNCHANGED calls
              /\ Goto(c, "gmail")
    /\ UNCHANGED <<input, feature_headless, host, domain, host_lowercase, replies,
                 count, attempts>>

\* a Yahoo error logged and dropped, the check going on with the next step
YahooReturns_Fallthrough(c) ==
    /\ pc[c] = "await_yahoo"
    /\ \E r \in YahooOutcomes :
         /\ Reply(c, r)
         /\ IF r.tag = "Err" THEN Goto(c, "gmail") ELSE Return(c, r)
    /\ UNCHANGED <<input, feature_headless, host, domain, host_lowercase, calls,
                 count, attempts>>

\* lines 73-75: check_yahoo returns; its result is returned, errors converted
YahooReturns(c) ==
    /\ pc[c] = "await_yahoo"
    /\ \E r \in YahooOutcomes :
         /\ Reply(c, r)
         /\ Return(c, map_err_into(r))
    /\ UNCHANGED <<input, feature_headless, host, domain, host_lowercase, calls,
                 count, attempts>>

\* lines 77-78: the Gmail condition and the call of check_gmail
CheckGmail(c) ==
    /\ pc[c] = "gmail"
    /\ IF input.gmail_use_api /\ ends_with(host_lowercase[c], ".google.com.")
         THEN /\ Call(c, [strategy |-> "gmail", retries |-> 0])
              /\ Goto(c, "await_gmail")
         ELSE /\ UNCHANGED calls
              /\ Goto(c, "microsoft365")
    /\ UNCHANGED <<input, feature_headless, host, domain, host_lowercase, replies,
                 count, attempts>>

\* a Gmail error logged and dropped, the check going on with the next step
GmailReturns_Fallthrough(c) ==
    /\ pc[c] = "await_gmail"
    /\ \E r \in GmailOutcomes :
         /\ Reply(c, r)
         /\ IF r.tag = "Err" THEN Goto(c, "microsoft365") ELSE Return(c, r)
    /\ UNCHANGED <<input, feature_headless, host, domain, host_lowercase, calls,
                 count, attempts>>

\* lines 78-80: check_gmail returns; its result is returned, errors converted
GmailReturns(c) ==
    /\ pc[c] = "await_gmail"
    /\ \E r \in GmailOutcomes :
         /\ Reply(c, r)
         /\ Return(c, map_err_into(r))
    /\ UNCHANGED <<input, feature_headless, host, domain, host_lowercase, calls,
                 count, attempts>>

\* lines 82-83: the Microsoft365 condition and the call of the API
CheckMicrosoft365(c) ==
    /\ pc[c] = "microsoft365"
    /\ IF /\ input.microsoft365_use_api
          /\ ends_with(host_lowercase[c], ".mail.protection.outlook.com.")
         THEN /\ Call(c, [strategy |-> "microsoft365", retries |-> 0])
              /\ Goto(c, "await_microsoft365")
         ELSE /\ UNCHANGED calls
              /\ Goto(c, "headless")
    /\ UNCHANGED <<input, feature_headless, host, domain, host_lowercase, replies,
                 count, attempts>>

\* a definite verdict dropped like an ambiguous one
Microsoft365Match_NeverReturns(c, r) == Goto(c, "headless")

\* an API error returned to the caller instead of logged
Microsoft365Match_ErrReturns(c, r) ==
    IF r.tag = "OkSome" THEN Return(c, Ok(r.v))
    ELSE IF r.tag = "Err" THEN Return(c, Err(into(r.v)))
    ELSE Goto(c, "headless")

\* an ambiguous answer returned as SmtpDetails::default()
Microsoft365Match_Default(c, r) ==
    IF r.tag = "OkSome" THEN Return(c, Ok(r.v))
    ELSE IF r.tag = "OkNone"
           THEN Return(c, Ok([can_connect_smtp |-> FALSE, has_full_inbox |-> FALSE,
                              is_catch_all |-> FALSE, is_deliverable |-> FALSE,
                              is_disabled |-> FALSE]))
           ELSE Goto(c, "headless")

\* lines 83-95: the match on the API's result
Microsoft365Match(c, r) ==
    IF r.tag = "OkSome"
      THEN Return(c, Ok(r.v))        \* Ok(Some(smtp_details)) => return
      ELSE Goto(c, "headless")       \* Err(err) => log; _ => {}

\* lines 83-96: check_microsoft365_api returns
Microsoft365Returns(c) ==
    /\ pc[c] = "await_microsoft365"
    /\ \E r \in Microsoft365Outcomes :
         /\ Reply(c, r)
         /\ Microsoft365Match(c, r)
    /\ UNCHANGED <<input, feature_headless, host, domain, host_lowercase, calls,
                 count, attempts>>

\* the headless probe tried on every *.protection.outlook.com. host
CheckHeadless_AnyOutlook(c) ==
    /\ pc[c] = "headless"
    /\ IF /\ feature_headless
          /\ input.hotmail_use_headless.some
          /\ ends_with(host_lowercase[c], ".protection.outlook.com.")
         THEN /\ Call(c, [strategy |-> "headless", retries |-> 0])
              /\ Goto(c, "await_headless")
         ELSE /\ UNCHANGED calls
              /\ Goto(c, "smtp")
    /\ UNCHANGED <<input, feature_headless, host, domain, host_lowercase, replies,
                 count, attempts>>

\* lines 97-111: the headless condition and the call of check_password_recovery
CheckHeadless(c) ==
    /\ pc[c] = "headless"
    /\ IF /\ feature_headless
          /\ input.hotmail_use_headless.some
          /\ ends_with(host_lowercase[c], "olc.protection.outlook.com.")
         THEN /\ Call(c, [strategy |-> "headless", retries |-> 0])
              /\ Goto(c, "await_headless")
         ELSE /\ UNCHANGED calls
              /\ Goto(c, "smtp")
    /\ UNCHANGED <<input, feature_headless, host, domain, host_lowercase, replies,
                 count, attempts>>

\* a headless error logged and dropped, the check going on with SMTP
HeadlessReturns_Swallow(c) ==
    /\ pc[c] = "await_headless"
    /\ \E r \in HotmailOutcomes :
         /\ Reply(c, r)
         /\ IF r.tag = "Err" THEN Goto(c, "smtp") ELSE Return(c, r)
    /\ UNCHANGED <<input, feature_headless, host, domain, host_lowercase, calls,
                 count, attempts>>

\* lines 111-113: check_password_recovery returns
HeadlessReturns(c) ==
    /\ pc[c] = "await_headless"
    /\ \E r \in HotmailOutcomes :
         /\ Reply(c, r)
         /\ Return(c, map_err_into(r))
    /\ UNCHANGED <<input, feature_headless, host, domain, host_lowercase, calls,
                 count, attempts>>

\* the SMTP probe started without retries
CallSmtpWithRetry_NoRetries(c) ==
    /\ pc[c] = "smtp"
    /\ Call(c, [strategy |-> "smtp", retries |-> 0])
    /\ count' = [count EXCEPT ![c] = 0]
    /\ Goto(c, "await_smtp")
    /\ UNCHANGED <<input, feature_headless, host, domain, host_lowercase, replies,
                   attempts>>

\* the retry count taken out of the shared configuration
CallSmtpWithRetry_ConsumesRetries(c) ==
    /\ pc[c] = "smtp"
    /\ Call(c, [strategy |-> "smtp", retries |-> input.retries])
    /\ count' = [count EXCEPT ![c] = input.retries]
    /\ input' = [input EXCEPT !.retries = 0]
    /\ Goto(c, "await_smtp")
    /\ UNCHANGED <<feature_headless, host, domain, host_lowercase, replies,
                   attempts>>

\* line 117: the call of check_smtp_with_retry(.., input.retries)
CallSmtpWithRetry(c) ==
    /\ pc[c] = "smtp"
    /\ Call(c, [strategy |-> "smtp", retries |-> input.retries])
    /\ count' = [count EXCEPT ![c] = input.retries]
    /\ Goto(c, "await_smtp")
    /\ UNCHANGED <<input, feature_headless, host, domain, host_lowercase, replies,
                   attempts>>

\* the verdicts one SMTP session can build from the server's replies:
\* the handshake succeeded, and the RCPT TO replies set the other fields
SessionVerdicts ==
    { d \in SmtpDetails :
        /\ d.can_connect_smtp
        /\ d.is_catch_all => d.is_deliverable
        /\ d.has_full_inbox => ~d.is_deliverable /\ ~d.is_disabled
        /\ d.is_disabled => ~d.is_deliverable }

\* the outcomes of one SMTP session that ran to its end
SessionOutcomes ==
    {Ok(d) : d \in SessionVerdicts}
        \cup {Err(e) : e \in {x \in SmtpErrors : x.kind # "TimeoutError"}}

Durations == 1..MaxDuration

\* how long a session may take under smtp_timeout t; without a deadline the
\* time a session takes has no effect, and one duration stands for all
SessionDurations(t) == IF t.some THEN Durations ELSE {1}

TimeoutError == [kind |-> "TimeoutError", detail |-> "smtp_timeout"]

\* the deadline counted from the start of the check, not of the attempt
with_timeout_Cumulative(t, elapsed, d, o) ==
    IF t.some /\ elapsed + d > t.ticks THEN Err(TimeoutError) ELSE o

\* a timeout reported as a connection failure
with_timeout_Masked(t, elapsed, d, o) ==
    IF t.some /\ d > t.ticks
      THEN Err([kind |-> "SmtpError", detail |-> "connection refused"])
      ELSE o

\* the session raced against its own deadline: a session of d ticks with
\* outcome o, started `elapsed` ticks into the check, under smtp_timeout t
with_timeout(t, elapsed, d, o) ==
    IF t.some /\ d > t.ticks THEN Err(TimeoutError) ELSE o

\* transient transport failures, the only errors that are retried
is_transient(e) == e.kind = "SmtpError" /\ e.detail = "connection refused"

\* one attempt more than configured
should_retry_OffByOne(r, n) == r.tag = "Err" /\ is_transient(r.v) /\ n >= 0

\* every error retried
should_retry_AnyError(r, n) == r.tag = "Err" /\ n > 0

\* a transient failure retried however many attempts are left
should_retry_Forever(r, n) == r.tag = "Err" /\ is_transient(r.v)

\* after an attempt ended with r, with n retries left: try again?
should_retry(r, n) ==
    r.tag = "Err" /\ is_transient(r.v) /\ n > 0

\* ticks spent in the attempts made so far
RECURSIVE Elapsed(_)
Elapsed(a) == IF a = <<>> THEN 0 ELSE a[1].duration + Elapsed(Tail(a))

LastOutcome(c) == attempts[c][Len(attempts[c])].outcome

\* one SMTP session under its timeout: the first attempt, or a retry with
\* count - 1 after a transient failure
SmtpSession(c) ==
    /\ pc[c] = "await_smtp"
    /\ Len(attempts[c]) <= MaxRetries
    /\ \/ /\ attempts[c] = <<>>
          /\ UNCHANGED count
       \/ /\ attempts[c] # <<>>
          /\ should_retry(LastOutcome(c), count[c])
          /\ count' = [count EXCEPT ![c] = @ - 1]
    /\ \E d \in SessionDurations(input.smtp_timeout), o \in SessionOutcomes :
         attempts' = [attempts EXCEPT ![c] =
            Append(@, [duration |-> d,
                       outcome |-> with_timeout(input.smtp_timeout,
                                                Elapsed(attempts[c]), d, o)])]
    /\ UNCHANGED <<input, feature_headless, host, domain, host_lowercase, pc,
                   calls, replies, result>>

\* line 117: check_smtp_with_retry returns the outcome of its last attempt;
\* that is the tail expression of check_smtp
SmtpWithRetryReturns(c) ==
    /\ pc[c] = "await_smtp"
    /\ attempts[c] # <<>>
    /\ ~should_retry(LastOutcome(c), count[c])
    /\ Reply(c, LastOutcome(c))
    /\ Return(c, LastOutcome(c))
    /\ UNCHANGED <<input, feature_headless, host, domain, host_lowercase, calls,
                   count, attempts>>

check_smtp(c) ==
    \/ CheckSkippedDomains(c)
    \/ CheckYahoo(c)
    \/ YahooReturns(c)
    \/ CheckGmail(c)
    \/ GmailReturns(c)
    \/ CheckMicrosoft365(c)
    \/ Microsoft365Returns(c)
    \/ CheckHeadless(c)
    \/ HeadlessReturns(c)
    \/ CallSmtpWithRetry(c)
    \/ SmtpSession(c)
    \/ SmtpWithRetryReturns(c)

Next == \E c \in Tasks : check_smtp(c)

Spec == Init /\ [][Next]_vars

\* every started check keeps running, and every collaborator that was
\* called returns
InitLive ==
    /\ Init
    /\ input.skipped_domains \subseteq {"icloud.com"}

SpecLive == InitLive /\ [][Next]_vars /\ WF_vars(Next)

\* two checks under one configuration whose hosts differ only in letter
\* case: the host as resolved, and the same name in lower case
InitCase ==
    /\ input \in {i \in CheckEmailInput :
                     /\ i.retries = 0 /\ i.smtp_timeout = NoTimeout
                     /\ i.hotmail_use_headless = SomeWebDriver}
    /\ feature_headless = TRUE
    /\ \E h \in {x \in Hosts : to_lowercase(x) # x} :
          host = [c \in {1, 2} |-> IF c = 1 THEN h ELSE to_lowercase(h)]
    /\ domain \in {[c \in {1, 2} |-> d] : d \in Domains}
    /\ host_lowercase = [c \in {1, 2} |-> ""]
    /\ pc = [c \in {1, 2} |-> "start"]
    /\ calls = [c \in {1, 2} |-> <<>>]
    /\ replies = [c \in {1, 2} |-> <<>>]
    /\ count = [c \in {1, 2} |-> 0]
    /\ attempts = [c \in {1, 2} |-> <<>>]
    /\ result = [c \in {1, 2} |-> NoResult]

SpecCase == InitCase /\ [][Next]_vars

\* two concurrent checks of different hosts sharing one configuration, all
\* overrides enabled
InitConcurrent ==
    /\ InitFor({1, 2})
    /\ host[1] # host[2]
    /\ to_lowercase(host[1]) = host[1] /\ to_lowercase(host[2]) = host[2]
    /\ input.yahoo_use_api /\ input.gmail_use_api
    /\ input.microsoft365_use_api
    /\ input.hotmail_use_headless = SomeWebDriver /\ feature_headless
    /\ input.smtp_timeout = NoTimeout
    /\ input.skipped_domains \subseteq {"icloud.com"}

SpecConcurrent == InitConcurrent /\ [][Next]_vars

---------------------------------------------------------------------------
(* Properties of check_smtp.                                               *)

\* the strategies named in the call log of check c
Invoked(c) == { calls[c][i].strategy : i \in 1..Len(calls[c]) }

\* the conditions of lines 61-65, 72, 77, 82 and 98-110, on the arguments
Lowered == [h \in Hosts \cup {to_lowercase(x) : x \in Hosts} |-> to_lowercase(h)]

Denylisted(c) ==
    \E d \in input.skipped_domains : contains(Lowered[host[c]], d)
YahooMatches(c) ==
    input.yahoo_use_api /\ contains(Lowered[host[c]], "yahoo")
GmailMatches(c) ==
    input.gmail_use_api /\ ends_with(Lowered[host[c]], ".google.com.")
Microsoft365Matches(c) ==
    /\ input.microsoft365_use_api
    /\ ends_with(Lowered[host[c]], ".mail.protection.outlook.com.")
HeadlessMatches(c) ==
    /\ input.hotmail_use_headless.some
    /\ ends_with(Lowered[host[c]], "olc.protection.outlook.com.")

\* C1, as stated: whenever the host name as given contains a configured
\* skip-substring, the check makes no collaborator call at any point and
\* its result is the error SkippedDomain.
C1_AsStated ==
    \A c \in Tasks :
        (\E d \in input.skipped_domains : contains(host[c], d)) =>
            /\ calls[c] = <<>>
            /\ pc[c] = "done" => result[c] = Err(SkippedDomain(domain[c]))

\* C1, amended: whenever the LOWER-CASED host name contains a configured
\* skip-substring (the substring taken exactly as configured), the check
\* makes no Yahoo, Gmail, Microsoft365, headless or SMTP call at any point,
\* ends at the denylist step, and its result is the error SkippedDomain.
C1_SkippedBeforeAnyCall ==
    \A c \in Tasks :
        Denylisted(c) =>
            /\ calls[c] = <<>> /\ replies[c] = <<>>
            /\ pc[c] \in {"start", "done"}
            /\ pc[c] = "done" => result[c] = Err(SkippedDomain(domain[c]))

\* C1 witness: a finished check of a denylisted host that also matches the
\* enabled Yahoo override, with the SkippedDomain error as its result.
C1_Witness ==
    \E c \in Tasks :
        /\ Denylisted(c) /\ YahooMatches(c)
        /\ pc[c] = "done" /\ result[c].tag = "Err"
        /\ result[c].v.kind = "SkippedDomain"

\* C2: the first strategy consulted is the earliest one, in the order
\* Yahoo, Gmail, Microsoft365, headless, whose condition holds; a host that
\* matches both the Yahoo and the Gmail condition is resolved by the Yahoo
\* API alone and the Gmail API is never called.
C2_PriorityOrder ==
    \A c \in Tasks :
        /\ (calls[c] # <<>>) =>
              calls[c][1].strategy =
                 IF YahooMatches(c) THEN "yahoo"
                 ELSE IF GmailMatches(c) THEN "gmail"
                 ELSE IF Microsoft365Matches(c) THEN "microsoft365"
                 ELSE IF feature_headless /\ HeadlessMatches(c) THEN "headless"
                 ELSE "smtp"
        /\ (~Denylisted(c) /\ YahooMatches(c) /\ GmailMatches(c)) =>
              /\ "gmail" \notin Invoked(c)
              /\ pc[c] = "done" =>
                    /\ Invoked(c) = {"yahoo"}
                    /\ result[c] = IF replies[c][1].tag = "Err"
                                     THEN Err(into(replies[c][1].v))
                                     ELSE replies[c][1]

\* C2 witness: a finished check of a host matching both the Yahoo and the
\* Gmail pattern, both APIs enabled, answered by the Yahoo API.
C2_Witness ==
    \E c \in Tasks :
        /\ ~Denylisted(c) /\ YahooMatches(c) /\ GmailMatches(c)
        /\ pc[c] = "done" /\ Len(calls[c]) = 1
        /\ calls[c][1].strategy = "yahoo"

\* C3: when the host is not denylisted and the Yahoo condition holds, only
\* the Yahoo API is ever called, and the result is its verdict unchanged or
\* its error converted to an SmtpError.
C3_YahooNoFallthrough ==
    \A c \in Tasks :
        (~Denylisted(c) /\ YahooMatches(c)) =>
            /\ Invoked(c) \subseteq {"yahoo"}
            /\ Len(calls[c]) <= 1
            /\ pc[c] \in {"start", "yahoo", "await_yahoo", "done"}
            /\ pc[c] = "done" =>
                  /\ Len(replies[c]) = 1
                  /\ replies[c][1].tag = "Ok" => result[c] = replies[c][1]
                  /\ replies[c][1].tag = "Err" =>
                        result[c] = Err(into(replies[c][1].v))

\* C3 witness: a finished Yahoo check whose API failed, the converted error
\* being the result.
C3_Witness ==
    \E c \in Tasks :
        /\ pc[c] = "done" /\ Len(replies[c]) = 1
        /\ calls[c][1].strategy = "yahoo"
        /\ replies[c][1].tag = "Err" /\ result[c].tag = "Err"

\* C4: when the host is not denylisted, the Yahoo condition fails and the
\* Gmail condition holds, only the Gmail API is ever called, and the result
\* is its verdict unchanged or its error converted, also when it fails.
C4_GmailNoFallthrough ==
    \A c \in Tasks :
        (~Denylisted(c) /\ ~YahooMatches(c) /\ GmailMatches(c)) =>
            /\ Invoked(c) \subseteq {"gmail"}
            /\ Len(calls[c]) <= 1
            /\ pc[c] \in {"start", "yahoo", "gmail", "await_gmail", "done"}
            /\ pc[c] = "done" =>
                  /\ Len(replies[c]) = 1
                  /\ replies[c][1].tag = "Ok" => result[c] = replies[c][1]
                  /\ replies[c][1].tag = "Err" =>
                        result[c] = Err(into(replies[c][1].v))

\* C4 witness: a finished Gmail check whose API failed, the converted error
\* being the result.
C4_Witness ==
    \E c \in Tasks :
        /\ pc[c] = "done" /\ Len(replies[c]) = 1
        /\ calls[c][1].strategy = "gmail"
        /\ replies[c][1].tag = "Err" /\ result[c].tag = "Err"

\* C5: when the Microsoft365 API was called and answered with a definite
\* verdict, the check is over at once with that verdict unchanged, and
\* neither the headless probe nor the SMTP probe is ever called.
C5_Microsoft365DefiniteReturns ==
    \A c \in Tasks :
        (/\ replies[c] # <<>>
         /\ calls[c][1].strategy = "microsoft365"
         /\ replies[c][1].tag = "OkSome") =>
            /\ pc[c] = "done"
            /\ result[c] = Ok(replies[c][1].v)
            /\ Invoked(c) = {"microsoft365"} /\ Len(calls[c]) = 1

\* C5 witness: a finished check answered by a definite Microsoft365 verdict.
C5_Witness ==
    \E c \in Tasks :
        /\ pc[c] = "done" /\ Len(replies[c]) = 1
        /\ calls[c][1].strategy = "microsoft365"
        /\ replies[c][1].tag = "OkSome" /\ result[c].tag = "Ok"

\* C6: when the Microsoft365 API answered "ambiguous" (Ok(None)) or with an
\* error, the check does not end at that step; it goes on to the retried
\* SMTP probe, whose outcome is returned unchanged, and the Microsoft365
\* error is never the result.
C6_Microsoft365FallsThrough ==
    \A c \in Tasks :
        (/\ replies[c] # <<>>
         /\ calls[c][1].strategy = "microsoft365"
         /\ replies[c][1].tag \in {"OkNone", "Err"}) =>
            /\ Len(replies[c]) = 1 =>
                  /\ pc[c] \in {"headless", "smtp", "await_smtp"}
                  /\ result[c] = NoResult
            /\ pc[c] = "done" =>
                  /\ Len(calls[c]) = 2 /\ Len(replies[c]) = 2
                  /\ calls[c][2].strategy = "smtp"
                  /\ result[c] = replies[c][2]
                  /\ result[c].v # replies[c][1].v
                  /\ replies[c][1].tag = "Err" =>
                        result[c] # Err(into(replies[c][1].v))

\* C6 witness: a finished check whose Microsoft365 API failed and whose
\* result is the verdict of the SMTP probe.
C6_Witness ==
    \E c \in Tasks :
        /\ pc[c] = "done" /\ Len(replies[c]) = 2
        /\ calls[c][1].strategy = "microsoft365"
        /\ replies[c][1].tag = "Err"
        /\ calls[c][2].strategy = "smtp" /\ result[c].tag = "Ok"

\* C7, as stated: an error of the Microsoft365 API or of the headless
\* recovery probe is swallowed: the check goes on, and that error is never
\* the value check_smtp returns.
C7_AsStated ==
    \A c \in Tasks :
        \A i \in 1..Len(replies[c]) :
            (/\ calls[c][i].strategy \in {"microsoft365", "headless"}
             /\ replies[c][i].tag = "Err") =>
                (pc[c] = "done" => result[c] # Err(into(replies[c][i].v)))

\* C7, amended: an error of the Yahoo API, of the Gmail API or of the
\* headless recovery probe ends the check and is returned (converted to an
\* SmtpError); only an error of the Microsoft365 API is swallowed: the check
\* goes on and that error is never the value returned.
C7_ErrorPropagation ==
    \A c \in Tasks :
        \A i \in 1..Len(replies[c]) :
            replies[c][i].tag = "Err" =>
                /\ calls[c][i].strategy \in {"yahoo", "gmail", "headless"} =>
                      /\ pc[c] = "done" /\ i = Len(calls[c])
                      /\ result[c] = Err(into(replies[c][i].v))
                /\ calls[c][i].strategy = "microsoft365" =>
                      /\ i = Len(calls[c]) => pc[c] \in {"headless", "smtp"}
                      /\ pc[c] = "done" =>
                            /\ i < Len(calls[c])
                            /\ result[c] # Err(into(replies[c][i].v))

\* C7 witness: a finished check whose headless probe failed, the converted
\* error being the result.
C7_Witness ==
    \E c \in Tasks :
        /\ pc[c] = "done" /\ Len(replies[c]) = 1
        /\ calls[c][1].strategy = "headless"
        /\ replies[c][1].tag = "Err" /\ result[c].tag = "Err"

\* C8: the headless probe is called only when the build has the feature,
\* a browser session is supplied, the lower-cased host ends with
\* "olc.protection.outlook.com." and no earlier step ended the check; once
\* called, the check ends with its outcome and the SMTP probe is never run.
\* Without a session the probe is never called.
C8_HeadlessOnlyIfTriggered ==
    \A c \in Tasks :
        /\ ("headless" \in Invoked(c)) =>
              /\ feature_headless /\ HeadlessMatches(c)
              /\ ~Denylisted(c) /\ ~YahooMatches(c) /\ ~GmailMatches(c)
              /\ \A i \in 1..Len(replies[c]) : replies[c][i].tag # "OkSome"
              /\ calls[c][Len(calls[c])].strategy = "headless"
              /\ "smtp" \notin Invoked(c)
              /\ pc[c] \in {"await_headless", "done"}
              /\ pc[c] = "done" =>
                    LET r == replies[c][Len(replies[c])] IN
                      /\ Len(replies[c]) = Len(calls[c])
                      /\ r.tag = "Ok" => result[c] = r
                      /\ r.tag = "Err" => result[c] = Err(into(r.v))
        /\ ~input.hotmail_use_headless.some => "headless" \notin Invoked(c)

\* C8 witness: a finished check answered by a verdict of the headless probe.
C8_Witness ==
    \E c \in Tasks :
        /\ pc[c] = "done" /\ "headless" \in Invoked(c)
        /\ result[c].tag = "Ok"

C10_OneTerminalBranch ==
    \A c \in Tasks :
        /\ pc[c] # "done" => result[c] = NoResult
        /\ pc[c] = "done" =>
              /\ result[c].tag \in {"Ok", "Err"}
              /\ result[c].tag = "Ok"  => result[c].v \in SmtpDetails
              /\ result[c].tag = "Err" => result[c].v \notin SmtpDetails
              /\ Len(replies[c]) = Len(calls[c])
              /\ IF calls[c] = <<>>
                   THEN result[c] = Err(SkippedDomain(domain[c]))
                   ELSE LET n == Len(calls[c])
                            r == replies[c][n]
                        IN  /\ r.tag \in {"Ok", "OkSome"} => result[c] = Ok(r.v)
                            /\ r.tag = "Err" =>
                                  result[c] =
                                     IF calls[c][n].strategy = "smtp"
                                       THEN r ELSE Err(into(r.v))
                            /\ r.tag # "OkNone"

\* C10 witness: a finished check in which two strategies answered
\* (Microsoft365 ambiguous, then SMTP) and the result is the SMTP verdict.
C10_Witness ==
    \E c \in Tasks :
        /\ pc[c] = "done" /\ Len(replies[c]) = 2
        /\ replies[c][1].tag = "OkNone"
        /\ result[c].tag = "Ok" /\ result[c] = replies[c][2]

\* C11: on the SMTP path at most retries + 1 sessions are run, exactly one
\* when retries = 0; each session is raced against smtp_timeout on its own
\* duration, whatever time the earlier attempts took.
C11_AtMostRetriesPlusOne ==
    \A c \in Tasks :
        /\ Len(attempts[c]) <= input.retries + 1
        /\ count[c] >= 0
        /\ (pc[c] = "done" /\ "smtp" \in Invoked(c)) =>
              /\ Len(attempts[c]) >= 1
              /\ input.retries = 0 => Len(attempts[c]) = 1
        /\ \A i \in 1..Len(attempts[c]) :
              (attempts[c][i].outcome = Err(TimeoutError)) <=>
                  /\ input.smtp_timeout.some
                  /\ attempts[c][i].duration > input.smtp_timeout.ticks

\* C11 witness: a finished check that used all retries + 1 >= 2 attempts,
\* none of which timed out although together they took longer than
\* smtp_timeout.
C11_Witness ==
    \E c \in Tasks :
        /\ pc[c] = "done" /\ Len(attempts[c]) = input.retries + 1
        /\ Len(attempts[c]) >= 2
        /\ input.smtp_timeout.some
        /\ Elapsed(attempts[c]) > input.smtp_timeout.ticks
        /\ \A i \in 1..Len(attempts[c]) :
              attempts[c][i].outcome # Err(TimeoutError)

\* C12: an attempt is followed by another one only if it ended with a
\* transient transport failure (never after a verdict, a definitive
\* rejection or a timeout, and a check that ended with SkippedDomain made no
\* attempt at all); a transient failure is retried while retries remain, so
\* a check ends with one only after retries + 1 attempts; the result is the
\* outcome of the last attempt, the verdict if that attempt succeeded.
C12_RetryOnlyTransient ==
    \A c \in Tasks :
        /\ \A i \in 1..(Len(attempts[c]) - 1) :
              /\ attempts[c][i].outcome.tag = "Err"
              /\ is_transient(attempts[c][i].outcome.v)
        /\ (pc[c] = "done" /\ result[c].tag = "Err"
              /\ result[c].v.kind = "SkippedDomain") => attempts[c] = <<>>
        /\ (pc[c] = "done" /\ attempts[c] # <<>>) =>
              /\ result[c] = LastOutcome(c)
              /\ (result[c].tag = "Err" /\ is_transient(result[c].v)) =>
                    Len(attempts[c]) = input.retries + 1

\* C12 witness: a finished check whose first attempt failed transiently and
\* whose second attempt succeeded, the verdict being the result.
C12_Witness ==
    \E c \in Tasks :
        /\ pc[c] = "done" /\ Len(attempts[c]) = 2
        /\ attempts[c][1].outcome.tag = "Err"
        /\ result[c].tag = "Ok" /\ result[c] = attempts[c][2].outcome

\* C13: an SMTP attempt that exceeds smtp_timeout is the last attempt of
\* the check, and the check's result is the error TimeoutError, not another
\* error and not a verdict.
C13_TimeoutSurfaced ==
    \A c \in Tasks :
        \A i \in 1..Len(attempts[c]) :
            (/\ input.smtp_timeout.some
             /\ attempts[c][i].duration > input.smtp_timeout.ticks) =>
                /\ i = Len(attempts[c])
                /\ attempts[c][i].outcome = Err(TimeoutError)
                /\ pc[c] \in {"await_smtp", "done"}
                /\ pc[c] = "done" => result[c] = Err(TimeoutError)

\* C13 witness: the check of host gmail.com, no override enabled, whose
\* SMTP attempt exceeded smtp_timeout, finished with TimeoutError.
C13_Witness ==
    \E c \in Tasks :
        /\ host[c] = "gmail.com" /\ input.smtp_timeout = SomeTimeout(1)
        /\ pc[c] = "done" /\ result[c] = Err(TimeoutError)
        /\ attempts[c][Len(attempts[c])].duration > 1

\* C14: two checks whose hosts differ only in letter case, under the same
\* configuration: the first strategy consulted is the same, both or neither
\* end at the denylist, and when the collaborators answered both alike the
\* same calls were made (the same step ended the check) and the results are
\* equal.
C14_CaseInsensitive ==
    (Tasks = {1, 2} /\ Lowered[host[1]] = Lowered[host[2]]
        /\ domain[1] = domain[2]) =>
        /\ (calls[1] # <<>> /\ calls[2] # <<>>) => calls[1][1] = calls[2][1]
        /\ (pc[1] = "done" /\ pc[2] = "done") =>
              /\ (calls[1] = <<>>) <=> (calls[2] = <<>>)
              /\ (replies[1] = replies[2] /\ attempts[1] = attempts[2]) =>
                    /\ calls[1] = calls[2]
                    /\ result[1] = result[2]

\* C14 witness: two finished checks, one of a host with upper-case letters
\* and one of the same host in lower case, both answered alike by the
\* Microsoft365 API (ambiguous) and then by the SMTP probe.
C14_Witness ==
    /\ Tasks = {1, 2} /\ host[1] # host[2]
    /\ Lowered[host[1]] = Lowered[host[2]]
    /\ pc[1] = "done" /\ pc[2] = "done"
    /\ replies[1] = replies[2] /\ Len(replies[1]) = 2
    /\ result[1] = result[2] /\ result[1].tag = "Ok"

\* what check c returns when it runs alone, given its own arguments, the
\* shared configuration and the answers its collaborators gave it
AloneResult(c) ==
    LET r1 == replies[c][1]
        k  == Len(replies[c])
    IN  IF Denylisted(c) THEN Err(SkippedDomain(domain[c]))
        ELSE IF YahooMatches(c) \/ GmailMatches(c) THEN map_err_into(r1)
        ELSE IF Microsoft365Matches(c) /\ r1.tag = "OkSome" THEN Ok(r1.v)
        ELSE IF feature_headless /\ HeadlessMatches(c)
               THEN map_err_into(replies[c][k])
        ELSE replies[c][k]

\* the state of check c
Local(c) ==
    <<host[c], domain[c], host_lowercase[c], pc[c], calls[c], replies[c],
      count[c], attempts[c], result[c]>>

\* C15: under every interleaving of two checks that share the
\* configuration, a step of one check changes nothing of the other, and a
\* finished check has the result it has when run alone with the same
\* collaborator answers.
C15_NoInterference ==
    [][ /\ \E c \in Tasks : \A o \in Tasks \ {c} : Local(o)' = Local(o)
        /\ \A c \in Tasks : pc'[c] = "done" => result'[c] = AloneResult(c)'
      ]_vars

\* C15 witness: two finished concurrent checks of different hosts, one
\* answered by the Yahoo API and one by the SMTP probe after a retry.
C15_Witness ==
    /\ Tasks = {1, 2} /\ host[1] # host[2]
    /\ pc[1] = "done" /\ pc[2] = "done"
    /\ \E c \in Tasks : calls[c] # <<>> /\ calls[c][1].strategy = "yahoo"
    /\ \E c \in Tasks : Len(attempts[c]) = 2

\* C16: no step of check_smtp changes the configuration: skipped_domains,
\* the use-api flags, hotmail_use_headless, retries and smtp_timeout keep
\* their values on every path.
C16_InputUnchanged == [][input' = input]_vars

\* C16 witness: a check that went through a swallowed Microsoft365 error
\* and a retried SMTP probe and ended with an error.
C16_Witness ==
    \E c \in Tasks :
        /\ pc[c] = "done" /\ Len(replies[c]) = 2
        /\ replies[c][1].tag = "Err" /\ result[c].tag = "Err"
        /\ Len(attempts[c]) = 2 /\ input.retries = 1

\* C17: if every step that can be taken is eventually taken (each
\* collaborator that was called returns), every check ends with a verdict
\* or an error.
C17_Terminates ==
    <>(\A c \in Tasks : pc[c] = "done" /\ result[c].tag \in {"Ok", "Err"})

\* C17 witness: a check that ended after the longest route: Microsoft365
\* fell through and the SMTP probe used a retry.
C17_Witness ==
    \E c \in Tasks :
        /\ pc[c] = "done" /\ result[c].tag \in {"Ok", "Err"}
        /\ Len(calls[c]) = 2 /\ Len(attempts[c]) = input.retries + 1
        /\ input.retries > 0

\* the place of a strategy in the fixed order
Rank(strategy) ==
    CASE strategy = "yahoo" -> 1 [] strategy = "gmail" -> 2
      [] strategy = "microsoft365" -> 3 [] strategy = "headless" -> 4
      [] strategy = "smtp" -> 5

\* C18: the strategies called in one check follow the fixed order without
\* repetition, at most two are called, and two only when the first is the
\* Microsoft365 API and it answered ambiguous or with an error.
C18_AtMostTwoInOrder ==
    \A c \in Tasks :
        /\ Len(calls[c]) <= 2
        /\ \A i, j \in 1..Len(calls[c]) :
              i < j => Rank(calls[c][i].strategy) < Rank(calls[c][j].strategy)
        /\ Len(calls[c]) = 2 =>
              /\ calls[c][1].strategy = "microsoft365"
              /\ replies[c][1].tag \in {"OkNone", "Err"}

\* C18 witness: a finished check that called two strategies.
C18_Witness ==
    \E c \in Tasks :
        /\ pc[c] = "done" /\ Len(calls[c]) = 2
        /\ Rank(calls[c][1].strategy) = 3 /\ Rank(calls[c][2].strategy) = 5

\* C19: no host ends with both ".mail.protection.outlook.com." and
\* "olc.protection.outlook.com."; so once the Microsoft365 API was called
\* and fell through, the headless probe is never called, session or not,
\* and the check ends with the outcome of the SMTP probe.
C19_Microsoft365ThenSmtp ==
    \A c \in Tasks :
        /\ ~ (/\ ends_with(Lowered[host[c]], ".mail.protection.outlook.com.")
              /\ ends_with(Lowered[host[c]], "olc.protection.outlook.com."))
        /\ ("microsoft365" \in Invoked(c) /\ pc[c] # "await_microsoft365"
              /\ replies[c][1].tag # "OkSome") =>
              /\ "headless" \notin Invoked(c)
              /\ pc[c] \in {"headless", "smtp", "await_smtp", "done"}
              /\ pc[c] = "done" =>
                    /\ calls[c][Len(calls[c])].strategy = "smtp"
                    /\ result[c] = replies[c][Len(replies[c])]
                    /\ result[c] = LastOutcome(c)

\* C19 witness: a finished check, built with the headless feature and given
\* a browser session, whose Microsoft365 API answered ambiguous and whose
\* result is that of the SMTP probe.
C19_Witness ==
    \E c \in Tasks :
        /\ feature_headless /\ input.hotmail_use_headless.some
        /\ pc[c] = "done" /\ Len(calls[c]) = 2
        /\ calls[c][1].strategy = "microsoft365"
        /\ replies[c][1].tag = "OkNone"
        /\ "headless" \notin Invoked(c)
        /\ result[c] = replies[c][2]

=============================================================================
